---------------------------- MODULE Spec2Model ----------------------------
(***************************************************************************)
(* Face attendance backend (backend_app.py): the identity registry and     *)
(* training pipeline (train_model, load_or_train_model), the registration  *)
(* and scan endpoints, and the attendance ledger (log_attendance).         *)
(*                                                                         *)
(* Strings are sequences of one-character strings.  Request handlers run   *)
(* on worker threads (Flask's threaded server); each handler is a series   *)
(* of steps, one per shared read or write, and th[t].pc is the position of *)
(* thread t in its handler.                                                *)
(***************************************************************************)
EXTENDS Integers, Sequences, FiniteSets, TLC

(***************************************************************************)
(* Bounds of the model                                                     *)
(***************************************************************************)
MaxFiles == 2        \* image files in the training corpus
MaxFaces == 2        \* faces the detector finds in one image
MaxLog == 2          \* attendance records in the log file
MaxClock == 22       \* seconds of wall-clock time that pass in a run
MaxTagLen == 3       \* length of a registered name (tag specification)

(***************************************************************************)
(* Program constants                                                       *)
(***************************************************************************)
min_log_interval_seconds == 10
recognition_threshold == 80
SecondsPerDay == 86400

(***************************************************************************)
(* Characters and strings                                                  *)
(***************************************************************************)
LowerChars == {"a", "b", "c"}
UpperChars == {"A", "B", "C"}
DigitChars == {"1", "2"}

\* code points, which order directory names in dirs.sort()
CharCode(c) ==
    CASE c = " " -> 32  [] c = "!" -> 33  [] c = "-" -> 45
      [] c = "1" -> 49  [] c = "2" -> 50
      [] c = "A" -> 65  [] c = "B" -> 66  [] c = "C" -> 67
      [] c = "_" -> 95
      [] c = "a" -> 97  [] c = "b" -> 98  [] c = "c" -> 99

IsCased(c) == c \in LowerChars \cup UpperChars

ToUpper(c) ==
    CASE c = "a" -> "A" [] c = "b" -> "B" [] c = "c" -> "C" [] OTHER -> c

ToLower(c) ==
    CASE c = "A" -> "a" [] c = "B" -> "b" [] c = "C" -> "c" [] OTHER -> c

\* "".join(c for c in s if keep(c))
RECURSIVE Filter(_, _)
Filter(s, keep) ==
    IF s = <<>> THEN <<>>
    ELSE (IF Head(s) \in keep THEN <<Head(s)>> ELSE <<>>) \o Filter(Tail(s), keep)

RECURSIVE LStrip(_)
LStrip(s) == IF s # <<>> /\ Head(s) = " " THEN LStrip(Tail(s)) ELSE s

RECURSIVE RStrip(_)
RStrip(s) ==
    IF s # <<>> /\ s[Len(s)] = " " THEN RStrip(SubSeq(s, 1, Len(s) - 1)) ELSE s

\* str.strip()
Strip(s) == RStrip(LStrip(s))

\* str.replace(old, new) for single characters
Replace(s, old, new) == [i \in 1..Len(s) |-> IF s[i] = old THEN new ELSE s[i]]

\* str.split(sep): every separator cuts, empty pieces are kept
RECURSIVE Split(_, _)
Split(s, sep) ==
    IF \A i \in 1..Len(s) : s[i] # sep THEN <<s>>
    ELSE LET i == CHOOSE k \in 1..Len(s) :
                      s[k] = sep /\ \A j \in 1..(k - 1) : s[j] # sep
         IN  <<SubSeq(s, 1, i - 1)>> \o Split(SubSeq(s, i + 1, Len(s)), sep)

\* str.title(): a cased character is upper-cased after an uncased one (or at
\* the start) and lower-cased after a cased one
Title(s) ==
    [i \in 1..Len(s) |->
        IF ~IsCased(s[i]) THEN s[i]
        ELSE IF i > 1 /\ IsCased(s[i - 1]) THEN ToLower(s[i]) ELSE ToUpper(s[i])]

\* s < t in Python's string order
RECURSIVE StrLess(_, _)
StrLess(s, t) ==
    IF t = <<>> THEN FALSE
    ELSE IF s = <<>> THEN TRUE
    ELSE IF CharCode(Head(s)) # CharCode(Head(t))
         THEN CharCode(Head(s)) < CharCode(Head(t))
    ELSE StrLess(Tail(s), Tail(t))

\* sorted(list of the strings of S)
RECURSIVE SortedSeq(_)
SortedSeq(S) ==
    IF S = {} THEN <<>>
    ELSE LET m == CHOOSE x \in S : \A y \in S \ {x} : StrLess(x, y)
         IN  <<m>> \o SortedSeq(S \ {m})

(***************************************************************************)
(* register_face: the corpus group tag of a registration                   *)
(***************************************************************************)
clean_name(name) ==
    Replace(Strip(Filter(name, LowerChars \cup UpperChars \cup DigitChars \cup {" "})),
            " ", "_")

clean_roll_no(roll_no) ==
    Strip(Filter(roll_no, LowerChars \cup UpperChars \cup DigitChars \cup {"_"}))

person_dir(name, roll_no) == clean_name(name) \o <<"_">> \o clean_roll_no(roll_no)

(***************************************************************************)
(* train_model: the identity a group tag is parsed to                      *)
(***************************************************************************)
ParseName(dir_name) == Title(Replace(Split(dir_name, "_")[1], "-", " "))

ParseRollNo(dir_name) ==
    LET parts == Split(dir_name, "_")
    IN  IF Len(parts) > 1 THEN parts[2] ELSE <<>>

ParseIdentity(dir_name) ==
    [name |-> ParseName(dir_name), roll_no |-> ParseRollNo(dir_name)]


(***************************************************************************)
(* State                                                                   *)
(***************************************************************************)
VARIABLES
    corpus,                   \* KNOWN_FACES_TRAINING_DIR: group directory -> its image files
    labels_map,               \* label -> [name, roll_no]
    next_label_id,
    face_recognizer,          \* the in-memory LBPH classifier
    model_file,               \* LBPH_MODEL_FILE: <<>> when absent, else <<content>>
    labels_file,              \* LABELS_MAP_FILE: <<>> when absent, else <<content>>
    attendance_logged_today,  \* log_key -> time of the last accepted record
    attendance_log,           \* ATTENDANCE_LOG_FILE
    now,                      \* the wall clock, in seconds
    detector_ok,              \* not face_detector.empty()
    serving,                  \* the startup load_or_train_model() has returned
    th                        \* per thread: position and locals of its handler

vars == <<corpus, labels_map, next_label_id, face_recognizer, model_file,
          labels_file, attendance_logged_today, attendance_log, now,
          detector_ok, serving, th>>

Threads == {1, 2}

\* an image as the detector sees it: readable or not, and the faces found in it
Img(n) == [present |-> TRUE, ok |-> TRUE, faces |-> n]
BadImg == [present |-> TRUE, ok |-> FALSE, faces |-> 0]
NoUpload == [present |-> FALSE, ok |-> FALSE, faces |-> 0]
\* the uploads a scan is driven with
ScanUploads == {Img(n) : n \in 0..MaxFaces} \cup {BadImg, NoUpload}
\* the images a group is given: no face, one face, two faces, or unreadable
GroupImages == {Img(0), Img(1), Img(2), BadImg}
\* the uploads a registration is driven with
RegUploads == {Img(0), Img(1), Img(2), BadImg, NoUpload}

\* the registrations the endpoints are driven with (<<>>: the field is missing)
RegNames == {<<"a">>, <<"b">>, <<>>}
RegRolls == {<<"1">>, <<>>}
DirNames == {person_dir(n, r) : n \in RegNames \ {<<>>}, r \in RegRolls \ {<<>>}}

\* face_recognizer.predict's score for a face
Confidences == {recognition_threshold - 1, recognition_threshold}

NotTrained == [trained |-> FALSE, labels |-> {}, reg |-> <<>>]
CorruptModel == [ok |-> FALSE, clf |-> NotTrained]
CorruptLabels == [ok |-> FALSE, map |-> <<>>]
NoLog == [exists |-> FALSE, rows |-> <<>>]
HeaderRow == [header |-> TRUE, date |-> 0, time |-> 0, name |-> <<>>, roll_no |-> <<>>]
NoPerson == [name |-> <<>>, roll_no |-> <<>>]

\* face_recognizer.predict's answer for the face a scan is at
NoFace == [label |-> 0, confidence |-> 0]

\* the last log_attendance call of a thread: its outcome and what it was given
NoCall == [res |-> "none", person |-> NoPerson, time |-> 0, rows |-> <<>>]

\* the registry, the classifier and their files, as train_model finds them
TrainSnapshot ==
    [labels_map |-> labels_map, next_label_id |-> next_label_id,
     face_recognizer |-> face_recognizer, model_file |-> model_file,
     labels_file |-> labels_file]

\* the shared state, as a request with an invalid input finds it
Snapshot ==
    [corpus |-> corpus, labels_map |-> labels_map, next_label_id |-> next_label_id,
     face_recognizer |-> face_recognizer, model_file |-> model_file,
     labels_file |-> labels_file,
     attendance_logged_today |-> attendance_logged_today,
     attendance_log |-> attendance_log]

Idle ==
    [pc |-> "idle", op |-> "none", name |-> <<>>, roll_no |-> <<>>, img |-> NoUpload,
     current_id |-> 0, dirs |-> <<>>, labels |-> {}, resolved |-> <<>>,
     trained |-> "none",
     faces |-> 0, results |-> <<>>, face |-> NoFace, person |-> NoPerson,
     log_key |-> <<>>,
     current_time |-> 0, la |-> NoCall, resp |-> "none",
     pre |-> <<>>, tpre |-> <<>>, obs |-> <<>>]

FileCount == LET RECURSIVE Sum(_)
                 Sum(D) == IF D = {} THEN 0
                           ELSE LET d == CHOOSE x \in D : TRUE
                                IN  Cardinality(corpus[d]) + Sum(D \ {d})
             IN  Sum(DOMAIN corpus)

\* m with m[k] set to v
Put(m, k, v) == [x \in DOMAIN m \cup {k} |-> IF x = k THEN v ELSE m[x]]

MaxOf(S) == CHOOSE x \in S : \A y \in S : y <= x

Init ==
    /\ corpus = <<>>
    /\ labels_map = <<>>
    /\ next_label_id = 0
    /\ face_recognizer = NotTrained
    /\ model_file = <<>>
    /\ labels_file = <<>>
    /\ attendance_logged_today = <<>>
    /\ attendance_log = NoLog
    /\ now = SecondsPerDay - min_log_interval_seconds
    /\ detector_ok \in BOOLEAN
    /\ serving = FALSE
    /\ th = [t \in Threads |-> IF t = 1 THEN [Idle EXCEPT !.pc = "ld_start", !.op = "startup"]
                                        ELSE Idle]

(***************************************************************************)
(* Returning from a call                                                   *)
(***************************************************************************)
Done(l, resp) == [l EXCEPT !.pc = "done", !.resp = resp]

\* load_or_train_model() returns ok to its caller
LoadReturn(l, ok) ==
    IF l.op = "scan"
    THEN IF ok THEN [l EXCEPT !.pc = "sc_decode"]
               ELSE Done(l, "500 model not available")
    ELSE Done(l, IF ok THEN "startup loaded" ELSE "startup failed")

\* train_model() returns ok to its caller; why records the branch taken
TrainReturn(l, ok, why) ==
    LET r == [l EXCEPT !.trained = why]
    IN  CASE l.op = "train" ->
                Done(r, IF ok THEN "200 training complete" ELSE "500 training failed")
          [] l.op = "register" ->
                Done(r, IF ok THEN "200 registered" ELSE "500 retrain failed")
          [] OTHER -> LoadReturn(r, ok)

(***************************************************************************)
(* train_model                                                             *)
(***************************************************************************)
\* the labels of the registry entries that hold this identity
FoundLabels(person) == {k \in DOMAIN labels_map : labels_map[k] = person}

\* line 116 with >= 1 for == 1
IsSampleAnyFace(f) == f.ok /\ f.faces >= 1

\* an image file yields a sample iff it is readable and shows exactly one face
IsSample(f) == f.ok /\ f.faces = 1

\* lines 72-87: read next_label_id, check the detector, list the groups in sorted order
TmStart(t) ==
    /\ th[t].pc = "tm_start"
    /\ LET l == [th[t] EXCEPT !.tpre = TrainSnapshot, !.current_id = next_label_id,
                              !.labels = {}, !.dirs = <<>>, !.resolved = <<>>]
       IN  th' = [th EXCEPT ![t] =
                    IF ~detector_ok THEN TrainReturn(l, FALSE, "no detector")
                    ELSE [l EXCEPT !.pc = "tm_group", !.dirs = SortedSeq(DOMAIN corpus)]]
    /\ UNCHANGED <<corpus, labels_map, next_label_id, face_recognizer, model_file,
                   labels_file, attendance_logged_today, attendance_log, now,
                   detector_ok, serving>>

\* lines 88-124: one group: resolve or create its label, then collect its samples
TmGroup(t) ==
    /\ th[t].pc = "tm_group"
    /\ th[t].dirs # <<>>
    /\ LET dir_name == Head(th[t].dirs)
           person == ParseIdentity(dir_name)
           found == FoundLabels(person)
           files == IF dir_name \in DOMAIN corpus THEN corpus[dir_name] ELSE {}
       IN  \E label_id \in (IF found = {} THEN {th[t].current_id} ELSE found) :
             /\ labels_map' = IF found = {} THEN Put(labels_map, label_id, person)
                                            ELSE labels_map
             /\ th' = [th EXCEPT ![t] =
                         [@ EXCEPT !.dirs = Tail(@),
                                   !.resolved = Put(@, dir_name, label_id),
                                   !.current_id = IF found = {} THEN @ + 1 ELSE @,
                                   !.labels = IF \E f \in files : IsSample(f)
                                              THEN @ \cup {label_id} ELSE @]]
    /\ UNCHANGED <<corpus, next_label_id, face_recognizer, model_file, labels_file,
                   attendance_logged_today, attendance_log, now, detector_ok, serving>>

\* lines 126-128: no usable sample: return False
TmCheck(t) ==
    /\ th[t].pc = "tm_group"
    /\ th[t].dirs = <<>>
    /\ th' = [th EXCEPT ![t] =
                IF th[t].labels = {} THEN TrainReturn(@, FALSE, "no samples")
                ELSE [@ EXCEPT !.pc = "tm_train"]]
    /\ UNCHANGED <<corpus, labels_map, next_label_id, face_recognizer, model_file,
                   labels_file, attendance_logged_today, attendance_log, now,
                   detector_ok, serving>>

\* the classifier face_recognizer.train builds from the collected samples
TrainedOn(labels) == [trained |-> TRUE, labels |-> labels, reg |-> labels_map]

\* line 132: face_recognizer.train(images, labels), on the global recognizer
TmTrain(t) ==
    /\ th[t].pc = "tm_train"
    /\ face_recognizer' = TrainedOn(th[t].labels)
    /\ th' = [th EXCEPT ![t].pc = "tm_write"]
    /\ UNCHANGED <<corpus, labels_map, next_label_id, model_file, labels_file,
                   attendance_logged_today, attendance_log, now, detector_ok, serving>>

\* line 133: face_recognizer.write(LBPH_MODEL_FILE); lines 138-140 when it raises
TmWriteModel(t) ==
    /\ th[t].pc = "tm_write"
    /\ \/ /\ model_file' = <<[ok |-> TRUE, clf |-> face_recognizer]>>
          /\ th' = [th EXCEPT ![t].pc = "tm_save"]
       \/ /\ model_file' = model_file
          /\ th' = [th EXCEPT ![t] = TrainReturn(@, FALSE, "exception")]
       \/ /\ model_file' = <<CorruptModel>>
          /\ th' = [th EXCEPT ![t] = TrainReturn(@, FALSE, "exception")]
    /\ UNCHANGED <<corpus, labels_map, next_label_id, face_recognizer, labels_file,
                   attendance_logged_today, attendance_log, now, detector_ok, serving>>

\* lines 134-137: np.save(LABELS_MAP_FILE, labels_map); next_label_id = current_id
TmSaveLabels(t) ==
    /\ th[t].pc = "tm_save"
    /\ \/ /\ labels_file' = <<[ok |-> TRUE, map |-> labels_map]>>
          /\ next_label_id' = th[t].current_id
          /\ th' = [th EXCEPT ![t] = TrainReturn(@, TRUE, "ok")]
       \/ /\ labels_file' = labels_file
          /\ next_label_id' = next_label_id
          /\ th' = [th EXCEPT ![t] = TrainReturn(@, FALSE, "exception")]
       \/ /\ labels_file' = <<CorruptLabels>>
          /\ next_label_id' = next_label_id
          /\ th' = [th EXCEPT ![t] = TrainReturn(@, FALSE, "exception")]
    /\ UNCHANGED <<corpus, labels_map, face_recognizer, model_file,
                   attendance_logged_today, attendance_log, now, detector_ok, serving>>

(***************************************************************************)
(* load_or_train_model                                                     *)
(***************************************************************************)
\* line 49: both files exist, else train
LdStart(t) ==
    /\ th[t].pc = "ld_start"
    /\ th' = [th EXCEPT ![t].pc =
                IF model_file # <<>> /\ labels_file # <<>> THEN "ld_read" ELSE "tm_start"]
    /\ UNCHANGED <<corpus, labels_map, next_label_id, face_recognizer, model_file,
                   labels_file, attendance_logged_today, attendance_log, now,
                   detector_ok, serving>>

\* line 51: face_recognizer.read(LBPH_MODEL_FILE); lines 57-62 when it raises
LdRead(t) ==
    /\ th[t].pc = "ld_read"
    /\ IF model_file # <<>> /\ model_file[1].ok
       THEN /\ face_recognizer' = model_file[1].clf
            /\ th' = [th EXCEPT ![t].pc = "ld_load"]
       ELSE /\ face_recognizer' = face_recognizer
            /\ th' = [th EXCEPT ![t].pc = "tm_start"]
    /\ UNCHANGED <<corpus, labels_map, next_label_id, model_file, labels_file,
                   attendance_logged_today, attendance_log, now, detector_ok, serving>>

\* line 54 without the + 1
NextLabelAtMax(map) == IF DOMAIN map # {} THEN MaxOf(DOMAIN map) ELSE 0

\* line 54
NextLabelAfter(map) == IF DOMAIN map # {} THEN MaxOf(DOMAIN map) + 1 ELSE 0

\* lines 52-56: np.load, labels_map and next_label_id; lines 60-62 when it raises
LdLoad(t) ==
    /\ th[t].pc = "ld_load"
    /\ IF labels_file # <<>> /\ labels_file[1].ok
       THEN /\ labels_map' = labels_file[1].map
            /\ next_label_id' = NextLabelAfter(labels_file[1].map)
            /\ th' = [th EXCEPT ![t] = LoadReturn(@, TRUE)]
       ELSE /\ UNCHANGED <<labels_map, next_label_id>>
            /\ th' = [th EXCEPT ![t].pc = "tm_start"]
    /\ UNCHANGED <<corpus, face_recognizer, model_file, labels_file,
                   attendance_logged_today, attendance_log, now, detector_ok, serving>>

(***************************************************************************)
(* /train and /register                                                    *)
(***************************************************************************)
AllIdle == \A u \in Threads : th[u].pc = "idle"

\* lines 177-179
ReqTrain(t) ==
    /\ serving
    /\ th[t].pc = "idle"
    /\ th' = [th EXCEPT ![t] = [Idle EXCEPT !.pc = "tm_start", !.op = "train"]]
    /\ UNCHANGED <<corpus, labels_map, next_label_id, face_recognizer, model_file,
                   labels_file, attendance_logged_today, attendance_log, now,
                   detector_ok, serving>>

\* lines 187-192: the required fields
ReqRegister(t, name, roll_no, img) ==
    /\ serving
    /\ th[t].pc = "idle"
    /\ img.ok => FileCount < MaxFiles
    /\ LET l == [Idle EXCEPT !.op = "register", !.name = name, !.roll_no = roll_no,
                             !.img = img,
                             !.pre = IF name = <<>> \/ roll_no = <<>> \/ ~img.ok
                                     THEN Snapshot ELSE <<>>]
       IN  th' = [th EXCEPT ![t] =
                    IF name = <<>> \/ roll_no = <<>> \/ ~img.present
                    THEN Done(l, "400 fields required")
                    ELSE [l EXCEPT !.pc = "rg_mkdir"]]
    /\ UNCHANGED <<corpus, labels_map, next_label_id, face_recognizer, model_file,
                   labels_file, attendance_logged_today, attendance_log, now,
                   detector_ok, serving>>

\* lines 195-199: os.makedirs(person_dir, exist_ok=True)
RegMkdir(t) ==
    /\ th[t].pc = "rg_mkdir"
    /\ LET d == person_dir(th[t].name, th[t].roll_no)
       IN  corpus' = IF d \in DOMAIN corpus THEN corpus ELSE Put(corpus, d, {})
    /\ th' = [th EXCEPT ![t].pc = "rg_decode"]
    /\ UNCHANGED <<labels_map, next_label_id, face_recognizer, model_file, labels_file,
                   attendance_logged_today, attendance_log, now, detector_ok, serving>>

\* lines 203-213: decode the upload, write it into the group, then retrain
RegDecode(t) ==
    /\ th[t].pc = "rg_decode"
    /\ LET d == person_dir(th[t].name, th[t].roll_no)
       IN  IF ~th[t].img.ok
           THEN /\ corpus' = corpus
                /\ th' = [th EXCEPT ![t] = Done(@, "400 invalid image")]
           ELSE /\ corpus' = Put(corpus, d,
                                 (IF d \in DOMAIN corpus THEN corpus[d] ELSE {})
                                     \cup {th[t].img})
                /\ th' = [th EXCEPT ![t].pc = "tm_start"]
    /\ UNCHANGED <<labels_map, next_label_id, face_recognizer, model_file, labels_file,
                   attendance_logged_today, attendance_log, now, detector_ok, serving>>

(***************************************************************************)
(* log_attendance                                                          *)
(***************************************************************************)
\* line 147: strftime("%Y-%m-%d") of a time
DateOf(time) == time \div SecondsPerDay

\* line 154: strftime("%H:%M:%S") of a time
TimeOfDay(time) == time % SecondsPerDay

\* line 148: f"{name}_{roll_no}_{today_date}"
LogKey(name, roll_no, time) ==
    name \o <<"_">> \o roll_no \o <<"_">> \o <<ToString(DateOf(time))>>

\* the comparison of line 152 with >= for >
IntervalPassedOrReached(last, time) == time - last >= min_log_interval_seconds

\* line 152: the interval since the last accepted record has passed
IntervalPassed(last, time) == time - last > min_log_interval_seconds

\* log_attendance returns to the scan loop (lines 266-267); a result records the
\* face's prediction and what log_attendance did for it
LaReturn(l, res) ==
    [l EXCEPT !.pc = "sc_face",
              !.la = [@ EXCEPT !.res = res],
              !.faces = @ - 1,
              !.face = NoFace,
              !.results = Append(@, [kind |-> "Recognized", person |-> l.person,
                                     label |-> l.face.label,
                                     confidence |-> l.face.confidence,
                                     logged |-> res])]

\* lines 146-152: the time, the key, and the dedup decision
LaCheck(t) ==
    /\ th[t].pc = "la_check"
    /\ LET key == LogKey(th[t].person.name, th[t].person.roll_no, now)
           l == [th[t] EXCEPT !.current_time = now, !.log_key = key, !.obs = <<>>,
                              !.la = [res |-> "running", person |-> th[t].person,
                                      time |-> now, rows |-> attendance_log.rows]]
       IN  th' = [th EXCEPT ![t] =
                    IF key \notin DOMAIN attendance_logged_today
                       \/ IntervalPassed(attendance_logged_today[key], now)
                    THEN [l EXCEPT !.pc = "la_exists"]
                    ELSE LaReturn(l, "suppressed")]
    /\ UNCHANGED <<corpus, labels_map, next_label_id, face_recognizer, model_file,
                   labels_file, attendance_logged_today, attendance_log, now,
                   detector_ok, serving>>

\* line 156: os.path.exists(ATTENDANCE_LOG_FILE)
LaExists(t) ==
    /\ th[t].pc = "la_exists"
    /\ th' = [th EXCEPT ![t].pc = IF attendance_log.exists THEN "la_append" ELSE "la_header"]
    /\ UNCHANGED <<corpus, labels_map, next_label_id, face_recognizer, model_file,
                   labels_file, attendance_logged_today, attendance_log, now,
                   detector_ok, serving>>

\* lines 157-158: open(.., "w") and the header row; lines 165-167 when it raises
LaHeader(t) ==
    /\ th[t].pc = "la_header"
    /\ \/ /\ attendance_log' = [exists |-> TRUE, rows |-> <<HeaderRow>>]
          /\ th' = [th EXCEPT ![t].pc = "la_append"]
       \/ /\ attendance_log' = attendance_log
          /\ th' = [th EXCEPT ![t] = LaReturn(@, "failed")]
    /\ UNCHANGED <<corpus, labels_map, next_label_id, face_recognizer, model_file,
                   labels_file, attendance_logged_today, now, detector_ok, serving>>

\* line 154
LogEntry(l) ==
    [header |-> FALSE, date |-> DateOf(l.current_time), time |-> TimeOfDay(l.current_time),
     name |-> l.person.name, roll_no |-> l.person.roll_no]

\* lines 160-167 with the dedup entry of line 163 set before the write, so that
\* a write that raises leaves it set
LaAppendMarksFirst(t) ==
    /\ th[t].pc = "la_append"
    /\ attendance_logged_today' =
           Put(attendance_logged_today, th[t].log_key, th[t].current_time)
    /\ \/ /\ attendance_log' = [exists |-> TRUE,
                                rows |-> Append(attendance_log.rows, LogEntry(th[t]))]
          /\ th' = [th EXCEPT ![t] = LaReturn(@, "appended")]
       \/ /\ UNCHANGED attendance_log
          /\ th' = [th EXCEPT ![t] = LaReturn(@, "failed")]
    /\ UNCHANGED <<corpus, labels_map, next_label_id, face_recognizer, model_file,
                   labels_file, now, detector_ok, serving>>

\* lines 160-164: open(.., "a"), the record, and the dedup entry; 165-167 when it raises
LaAppend(t) ==
    /\ th[t].pc = "la_append"
    /\ \/ /\ attendance_log' = [exists |-> TRUE,
                                rows |-> Append(attendance_log.rows, LogEntry(th[t]))]
          /\ attendance_logged_today' =
                 Put(attendance_logged_today, th[t].log_key, th[t].current_time)
          /\ th' = [th EXCEPT ![t] = LaReturn(@, "appended")]
       \/ /\ UNCHANGED <<attendance_log, attendance_logged_today>>
          /\ th' = [th EXCEPT ![t] = LaReturn(@, "failed")]
    /\ UNCHANGED <<corpus, labels_map, next_label_id, face_recognizer, model_file,
                   labels_file, now, detector_ok, serving>>

(***************************************************************************)
(* /scan_image                                                             *)
(***************************************************************************)
RecordCount == Cardinality({i \in 1..Len(attendance_log.rows) : ~attendance_log.rows[i].header})

\* lines 225-236: the upload, the detector, and the model
ReqScan(t, img) ==
    /\ serving
    /\ th[t].pc = "idle"
    /\ RecordCount + img.faces <= MaxLog
    /\ LET l == [Idle EXCEPT !.op = "scan", !.img = img,
                             !.pre = IF ~img.ok THEN Snapshot ELSE <<>>]
       IN  th' = [th EXCEPT ![t] =
                    IF ~img.present THEN Done(l, "400 image required")
                    ELSE IF ~detector_ok THEN Done(l, "500 detector not initialized")
                    ELSE IF DOMAIN labels_map = {} THEN [l EXCEPT !.pc = "ld_start"]
                    ELSE [l EXCEPT !.pc = "sc_decode"]]
    /\ UNCHANGED <<corpus, labels_map, next_label_id, face_recognizer, model_file,
                   labels_file, attendance_logged_today, attendance_log, now,
                   detector_ok, serving>>

\* detectMultiScale returns an empty tuple when it finds no face, else an ndarray
DetectResult(img) == [is_ndarray |-> img.faces > 0, count |-> img.faces]

\* line 249: faces.any(); a tuple has no such method and the call raises
FacesAny(faces) ==
    IF faces.is_ndarray THEN [raises |-> FALSE, value |-> faces.count > 0]
    ELSE [raises |-> TRUE, value |-> FALSE]

\* lines 239-250 (and 273-275 when a call raises)
ScDecode(t) ==
    /\ th[t].pc = "sc_decode"
    /\ LET img == th[t].img
           faces == DetectResult(img)
       IN  th' = [th EXCEPT ![t] =
                    IF ~img.ok THEN Done(@, "400 invalid image")
                    ELSE IF FacesAny(faces).raises THEN Done(@, "500 scan error")
                    ELSE IF ~FacesAny(faces).value THEN Done(@, "200 no face detected")
                    ELSE [@ EXCEPT !.pc = "sc_face", !.faces = faces.count]]
    /\ UNCHANGED <<corpus, labels_map, next_label_id, face_recognizer, model_file,
                   labels_file, attendance_logged_today, attendance_log, now,
                   detector_ok, serving>>

\* the retrains that have started to resolve groups and have not yet returned,
\* each as the classifier and the registry it started from
RetrainsInProgress ==
    {[clf |-> th[u].tpre.face_recognizer, map |-> th[u].tpre.labels_map] :
        u \in {v \in Threads : th[v].pc \in {"tm_group", "tm_train", "tm_write", "tm_save"}}}

\* lines 253-269: one face: predict, threshold, registry lookup
ScFace(t) ==
    /\ th[t].pc = "sc_face"
    /\ th[t].faces > 0
    /\ IF ~face_recognizer.trained
       THEN th' = [th EXCEPT ![t] = Done(@, "500 scan error")]
       ELSE \E label \in face_recognizer.labels, confidence \in Confidences :
              LET l == [th[t] EXCEPT !.obs = [clf |-> face_recognizer, map |-> labels_map,
                                              during |-> RetrainsInProgress]]
              IN  th' = [th EXCEPT ![t] =
                           IF confidence < recognition_threshold /\ label \in DOMAIN labels_map
                           THEN [l EXCEPT !.pc = "la_check", !.person = labels_map[label],
                                          !.face = [label |-> label,
                                                    confidence |-> confidence]]
                           ELSE [l EXCEPT !.faces = @ - 1,
                                          !.results = Append(@, [kind |-> "Unknown",
                                                                 person |-> NoPerson,
                                                                 label |-> label,
                                                                 confidence |-> confidence,
                                                                 logged |-> "not called"])]]
    /\ UNCHANGED <<corpus, labels_map, next_label_id, face_recognizer, model_file,
                   labels_file, attendance_logged_today, attendance_log, now,
                   detector_ok, serving>>

\* line 271
ScReturn(t) ==
    /\ th[t].pc = "sc_face"
    /\ th[t].faces = 0
    /\ th' = [th EXCEPT ![t] = Done([@ EXCEPT !.obs = <<>>], "200 results")]
    /\ UNCHANGED <<corpus, labels_map, next_label_id, face_recognizer, model_file,
                   labels_file, attendance_logged_today, attendance_log, now,
                   detector_ok, serving>>

(***************************************************************************)
(* The response, and the environment                                       *)
(***************************************************************************)
\* the handler's response is sent; line 296-297 for the startup call
Respond(t) ==
    /\ th[t].pc = "done"
    /\ serving' = (serving \/ th[t].op = "startup")
    /\ th' = [th EXCEPT ![t] = Idle]
    /\ UNCHANGED <<corpus, labels_map, next_label_id, face_recognizer, model_file,
                   labels_file, attendance_logged_today, attendance_log, now, detector_ok>>

\* an image is put into a group of the corpus from outside the program
PlaceImage(d, img) ==
    /\ AllIdle
    /\ FileCount < MaxFiles
    /\ corpus' = Put(corpus, d, (IF d \in DOMAIN corpus THEN corpus[d] ELSE {}) \cup {img})
    /\ corpus' # corpus
    /\ UNCHANGED <<labels_map, next_label_id, face_recognizer, model_file, labels_file,
                   attendance_logged_today, attendance_log, now, detector_ok, serving, th>>

StartTime == SecondsPerDay - min_log_interval_seconds

\* a second passes
Tick ==
    /\ now < StartTime + MaxClock
    /\ now' = now + 1
    /\ UNCHANGED <<corpus, labels_map, next_label_id, face_recognizer, model_file,
                   labels_file, attendance_logged_today, attendance_log, detector_ok,
                   serving, th>>

StartupThreads ==
    [t \in Threads |-> IF t = 1 THEN [Idle EXCEPT !.pc = "ld_start", !.op = "startup"]
                                ELSE Idle]

\* the process is killed and started again: lines 25-29, the detector is loaded
\* anew (lines 34-36), and line 296
Restart ==
    /\ labels_map' = <<>>
    /\ next_label_id' = 0
    /\ face_recognizer' = NotTrained
    /\ attendance_logged_today' = <<>>
    /\ detector_ok' \in BOOLEAN
    /\ serving' = FALSE
    /\ th' = StartupThreads
    /\ UNCHANGED <<corpus, model_file, labels_file, attendance_log, now>>

(***************************************************************************)
(* Specifications                                                          *)
(***************************************************************************)
\* the steps of train_model and load_or_train_model on thread t
TrainStep(t) ==
    \/ TmStart(t) \/ TmGroup(t) \/ TmCheck(t) \/ TmTrain(t)
    \/ TmWriteModel(t) \/ TmSaveLabels(t)
    \/ LdStart(t) \/ LdRead(t) \/ LdLoad(t)

\* the steps of register_face on thread t
RegisterStep(t) == RegMkdir(t) \/ RegDecode(t)

\* the steps of scan_image_endpoint and log_attendance on thread t
ScanStep(t) ==
    \/ ScDecode(t) \/ ScFace(t) \/ ScReturn(t)
    \/ LaCheck(t) \/ LaExists(t) \/ LaHeader(t) \/ LaAppend(t)

RegisterRequest(t) ==
    \E name \in RegNames, roll_no \in RegRolls, img \in RegUploads :
        ReqRegister(t, name, roll_no, img)

ScanRequest(t) == \E img \in ScanUploads : ReqScan(t, img)

CorpusEdit == \E d \in DirNames, img \in GroupImages : PlaceImage(d, img)

\* Registry and training pipeline: startup, /train and /register requests served
\* one at a time, corpus edits between requests, and restarts at any point.
Next ==
    \/ TrainStep(1)
    \/ RegisterStep(1)
    \/ Respond(1)
    \/ ReqTrain(1)
    \/ RegisterRequest(1)
    \/ CorpusEdit
    \/ Restart

Spec == Init /\ [][Next]_vars

\* All endpoints, served one request at a time in one run of the process (with
\* no restart the persisted files are never read: they exist only once the
\* registry is non-empty).
ScanNext ==
    \/ TmStart(1) \/ TmGroup(1) \/ TmCheck(1) \/ TmTrain(1)
    \/ TmWriteModel(1) \/ TmSaveLabels(1)
    \/ LdStart(1)
    \/ RegisterStep(1)
    \/ ScanStep(1)
    \/ Respond(1)
    \/ ReqTrain(1)
    \/ RegisterRequest(1)
    \/ ScanRequest(1)
    \/ CorpusEdit

SpecScan == Init /\ [][ScanNext]_vars

(***************************************************************************)
(* Registry claims                                                         *)
(***************************************************************************)
\* thread t is inside train_model, or has returned from it and not yet responded
InTrain(t) == th[t].tpre # <<>>

\* C2: a label that the registry held when train_model started still names the
\* same identity: train_model never overwrites an existing entry.
C2_LabelsNeverReassigned ==
    \A t \in Threads :
        InTrain(t) =>
            \A k \in DOMAIN th[t].tpre.labels_map :
                k \in DOMAIN labels_map /\ labels_map[k] = th[t].tpre.labels_map[k]

\* C3: when train_model returns False for want of a usable sample, the registry,
\* the label counter, the classifier and both persisted files are as they were
\* when it was called.
C3_NoSamplesLeavesStateUntouched ==
    \A t \in Threads :
        th[t].trained = "no samples" =>
            /\ labels_map = th[t].tpre.labels_map
            /\ next_label_id = th[t].tpre.next_label_id
            /\ face_recognizer = th[t].tpre.face_recognizer
            /\ model_file = th[t].tpre.model_file
            /\ labels_file = th[t].tpre.labels_file

\* C4: after a successful train_model the keys of the registry are exactly the
\* labels the classifier was trained on.
C4_RegistryEqualsTrainedSet ==
    \A t \in Threads :
        (th[t].trained = "ok" /\ th[t].pc = "done") =>
            DOMAIN labels_map = face_recognizer.labels

\* the persisted classifier and the persisted registry are of one generation:
\* both absent, or both written by the same retrain
FilesOfOneGeneration ==
    \/ model_file = <<>> /\ labels_file = <<>>
    \/ /\ model_file # <<>> /\ labels_file # <<>>
       /\ model_file[1].ok /\ labels_file[1].ok
       /\ model_file[1].clf.reg = labels_file[1].map

\* C7: whatever step a retrain failed or was interrupted at, it leaves the two
\* persisted files of one generation (the files are looked at whenever no
\* retrain stands between its two writes).
C7_PersistedPairConsistent ==
    (\A t \in Threads : th[t].pc # "tm_save") => FilesOfOneGeneration

\* C10: a group whose identity the registry held when train_model started is
\* resolved to the label it had, and the registry holds no other entry for it.
C10_ExistingIdentityKeepsLabel ==
    \A t \in Threads :
        InTrain(t) =>
            \A d \in DOMAIN th[t].resolved :
                \A k \in DOMAIN th[t].tpre.labels_map :
                    th[t].tpre.labels_map[k] = ParseIdentity(d) =>
                        /\ th[t].resolved[d] = k
                        /\ FoundLabels(ParseIdentity(d)) \subseteq {k}

\* load_or_train_model on thread t did not load the persisted pair, fell back
\* to train_model, and train_model has returned
LoadFellBackToTrain(t) == th[t].op \in {"startup", "scan"} /\ th[t].trained # "none"

\* C12: when the load fails and the retrain has returned, whatever its outcome,
\* the in-memory classifier, if there is one, stands with the registry it was
\* trained with: never a classifier read from the model file beside a registry
\* that did not come from the matching labels file.
C12_FailedLoadLeavesNoPartialPair ==
    \A t \in Threads :
        LoadFellBackToTrain(t) =>
            (face_recognizer.trained => face_recognizer.reg = labels_map)

\* the startup load_or_train_model on thread t has loaded the persisted pair
StartupLoaded(t) ==
    th[t].op = "startup" /\ th[t].pc = "done" /\ th[t].trained = "none"

\* C13: after a restart that loads the pair a successful train_model persisted,
\* the registry is the persisted one, with integer keys; it is the registry that
\* training held, so every identity is found under the labels it had; and the
\* next label to allocate is greater than every loaded label.
C13_ReloadRoundTrip ==
    \A t \in Threads :
        StartupLoaded(t) =>
            /\ labels_file # <<>> /\ labels_map = labels_file[1].map
            /\ DOMAIN labels_map \subseteq Nat
            /\ \A k \in DOMAIN labels_map : next_label_id > k
            /\ FilesOfOneGeneration =>
                   /\ labels_map = face_recognizer.reg
                   /\ \A k \in DOMAIN face_recognizer.reg :
                          k \in FoundLabels(face_recognizer.reg[k])

\* a restart has loaded a registry of two identities
C13_Witness ==
    \E t \in Threads :
        /\ StartupLoaded(t)
        /\ FilesOfOneGeneration
        /\ Cardinality(DOMAIN labels_map) = 2

\* a readable image in which the detector finds exactly one face
OneFace(f) == f.ok /\ f.faces = 1

\* a readable image in which the detector finds no face or more than one
ZeroOrManyFaces(f) == f.ok /\ f.faces # 1

\* the groups of the corpus that hold an image showing exactly one face
OneFaceGroups == {d \in DOMAIN corpus : \E f \in corpus[d] : OneFace(f)}

\* train_model on thread t has walked a corpus that holds an image with no face
\* or several, and has returned
TrainedOverSkippedImage(t) ==
    /\ th[t].pc = "done"
    /\ th[t].trained \in {"ok", "no samples", "exception"}
    /\ \E d \in DOMAIN corpus : \E f \in corpus[d] : ZeroOrManyFaces(f)

\* every group was walked, and the samples are those of the one-face images
SkippedImagesContributeNothing(t) ==
    /\ DOMAIN th[t].resolved = DOMAIN corpus
    /\ th[t].labels = {th[t].resolved[d] : d \in OneFaceGroups}
    /\ th[t].trained = "ok" => face_recognizer.labels = th[t].labels

\* C16 as claimed: an image with no face or several contributes no sample and
\* does not abort training; training succeeds if another image shows one face.
C16_SkippedImageTrainingSucceeds ==
    \A t \in Threads :
        TrainedOverSkippedImage(t) =>
            /\ SkippedImagesContributeNothing(t)
            /\ OneFaceGroups # {} => th[t].trained = "ok"

\* C16 as amended: an image with no face or several contributes no sample and
\* does not abort training; if another image shows one face the classifier is
\* trained, and training succeeds unless writing the model or the labels file
\* raises; with no such image training fails for want of samples.
C16_SkippedImageDoesNotAbort ==
    \A t \in Threads :
        TrainedOverSkippedImage(t) =>
            /\ SkippedImagesContributeNothing(t)
            /\ OneFaceGroups # {} <=> th[t].trained \in {"ok", "exception"}
            /\ OneFaceGroups # {} => face_recognizer = TrainedOn(th[t].labels)

\* training succeeded over a corpus with a skipped image and a one-face image
C16_Witness ==
    \E t \in Threads :
        /\ TrainedOverSkippedImage(t)
        /\ th[t].trained = "ok"
        /\ \E d \in OneFaceGroups : \E f \in corpus[d] : ZeroOrManyFaces(f)

(***************************************************************************)
(* Endpoint claims                                                         *)
(***************************************************************************)
\* thread t has finished a scan whose image decoded and whose detector ran
ScanReachedDetector(t) ==
    /\ th[t].op = "scan"
    /\ th[t].pc = "done"
    /\ th[t].img.ok
    /\ th[t].resp \in {"500 scan error", "200 no face detected", "200 results"}

\* C5: a scan of a decodable image in which the detector finds no face answers
\* 'no face detected', never an error.
C5_ZeroFacesIsNoFaceFound ==
    \A t \in Threads :
        (ScanReachedDetector(t) /\ th[t].img.faces = 0) =>
            th[t].resp = "200 no face detected"

InvalidInputResponses == {"400 fields required", "400 image required", "400 invalid image"}

\* C9: a register or scan request answered with the invalid-input error has
\* changed no state: corpus, registry, label counter, classifier, persisted
\* files, dedup map and attendance log are as they were when it arrived.
C9_InvalidInputMutatesNothing ==
    \A t \in Threads :
        (th[t].pc = "done" /\ th[t].resp \in InvalidInputResponses) =>
            Snapshot = th[t].pre

\* the decision rule as stated: a score strictly below the threshold and a label
\* that is a key of the registry
IsRecognized(r) == r.confidence < 80 /\ r.label \in DOMAIN labels_map

\* C11: a scan in which the detector found faces returns one result per face;
\* a face is Recognized iff its score is strictly below the threshold and its
\* label is a key of the registry, else Unknown; log_attendance was called
\* exactly for the Recognized faces, with the registry's identity for the label.
C11_OneResultPerFaceByDecisionRule ==
    \A t \in Threads :
        (ScanReachedDetector(t) /\ th[t].img.faces > 0) =>
            /\ th[t].resp = "200 results"
            /\ Len(th[t].results) = th[t].img.faces
            /\ \A i \in 1..Len(th[t].results) :
                   LET r == th[t].results[i]
                   IN  /\ r.kind = (IF IsRecognized(r) THEN "Recognized" ELSE "Unknown")
                       /\ (r.kind = "Recognized") <=> (r.logged # "not called")
                       /\ r.kind = "Recognized" => r.person = labels_map[r.label]

\* C17: a scan that is about to query the classifier with predict has a
\* classifier that was trained or loaded in this process.
C17_PredictOnlyWithModel ==
    \A t \in Threads :
        (th[t].pc = "sc_face" /\ th[t].faces > 0) => face_recognizer.trained

(***************************************************************************)
(* The attendance ledger in one run of the process                         *)
(***************************************************************************)
PersonA == [name |-> <<"A">>, roll_no |-> <<"1">>]
PersonB == [name |-> <<"B">>, roll_no |-> <<"1">>]
TwoPeople == (0 :> PersonA) @@ (1 :> PersonB)
TwoPeopleModel == [trained |-> TRUE, labels |-> {0, 1}, reg |-> TwoPeople]

\* two people have registered with one-face images and the retrains succeeded
LedgerInit ==
    /\ corpus = (<<"a", "_", "1">> :> {Img(1)}) @@ (<<"b", "_", "1">> :> {Img(1)})
    /\ labels_map = TwoPeople
    /\ next_label_id = 2
    /\ face_recognizer = TwoPeopleModel
    /\ model_file = <<[ok |-> TRUE, clf |-> TwoPeopleModel]>>
    /\ labels_file = <<[ok |-> TRUE, map |-> TwoPeople]>>
    /\ attendance_logged_today = <<>>
    /\ attendance_log = NoLog
    /\ now = StartTime
    /\ detector_ok = TRUE
    /\ serving = TRUE
    /\ th = [t \in Threads |-> Idle]

\* scans served one at a time while the clock runs
LedgerNext ==
    \/ ScanRequest(1)
    \/ ScanStep(1)
    \/ Respond(1)
    \/ Tick

SpecLedger == LedgerInit /\ [][LedgerNext]_vars

\* the attendance records of the log, without the header row
RECURSIVE Records(_)
Records(rows) ==
    IF rows = <<>> THEN <<>>
    ELSE (IF Head(rows).header THEN <<>> ELSE <<Head(rows)>>) \o Records(Tail(rows))

\* the clock time a record was written at
RecordTime(row) == row.date * SecondsPerDay + row.time

\* the records, among recs, of the person and date of the call c
SameKey(recs, c) ==
    {i \in 1..Len(recs) : /\ recs[i].name = c.person.name
                          /\ recs[i].roll_no = c.person.roll_no
                          /\ recs[i].date = DateOf(c.time)}

\* no record was accepted for the call's key before, or more than the interval
\* has passed since the last one
MayLog(c) ==
    LET recs == Records(c.rows)
        same == SameKey(recs, c)
    IN  \/ same = {}
        \/ c.time - RecordTime(recs[MaxOf(same)]) > min_log_interval_seconds

\* the record a call writes
RecordOf(c) ==
    [header |-> FALSE, date |-> DateOf(c.time), time |-> TimeOfDay(c.time),
     name |-> c.person.name, roll_no |-> c.person.roll_no]

CallFinished(t) == th[t].la.res \in {"appended", "suppressed", "failed"}

\* the log holds the records it held when the call began, and the call's record
CallAppended(t) ==
    Records(attendance_log.rows) = Append(Records(th[t].la.rows), RecordOf(th[t].la))

\* C1 as claimed: a call appends a record iff no record was accepted for its key
\* before or more than min_log_interval_seconds have passed since the last one.
C1_AppendsIffIntervalPassed ==
    \A t \in Threads :
        CallFinished(t) => (CallAppended(t) <=> MayLog(th[t].la))

\* C1 as amended: a call appends a record iff no record was accepted for its key
\* before or more than min_log_interval_seconds have passed since the last one,
\* and its write to the log file does not fail; otherwise the log keeps its records.
C1_AppendsIffIntervalPassedAndWritten ==
    \A t \in Threads :
        CallFinished(t) =>
            /\ CallAppended(t) <=> (MayLog(th[t].la) /\ th[t].la.res # "failed")
            /\ CallAppended(t) \/ Records(attendance_log.rows) = Records(th[t].la.rows)

\* the dedup key of the call c
KeyOf(c) == LogKey(c.person.name, c.person.roll_no, c.time)

\* the call of thread t returns in this step, with the result res
Returns(t, res) == th[t].la.res = "running" /\ th'[t].la.res = res

\* C19: a step changes the dedup map only when a call returns having appended
\* its record, and then sets the call's key to the call's time; a step in which
\* a call returns suppressed, or with a failed write, leaves the map unchanged.
C19_DedupMapChangesOnlyOnAppend ==
    [][/\ attendance_logged_today' # attendance_logged_today =>
              \E t \in Threads :
                  /\ Returns(t, "appended")
                  /\ attendance_log'.rows = Append(attendance_log.rows, RecordOf(th[t].la))
                  /\ attendance_logged_today' =
                         Put(attendance_logged_today, KeyOf(th[t].la), th[t].la.time)
       /\ \A t \in Threads :
              (Returns(t, "suppressed") \/ Returns(t, "failed")) =>
                  attendance_logged_today' = attendance_logged_today
       /\ \A t \in Threads :
              Returns(t, "appended") =>
                  /\ KeyOf(th[t].la) \in DOMAIN attendance_logged_today'
                  /\ attendance_logged_today'[KeyOf(th[t].la)] = th[t].la.time]_vars

\* a call whose write failed has returned, its key holding an earlier time
C19_Witness ==
    \E t \in Threads :
        /\ th[t].la.res = "failed"
        /\ KeyOf(th[t].la) \in DOMAIN attendance_logged_today
        /\ attendance_logged_today[KeyOf(th[t].la)] < th[t].la.time

\* a second record of one person on one day was appended after the interval
C1_Witness ==
    \E t \in Threads :
        /\ CallFinished(t)
        /\ CallAppended(t)
        /\ SameKey(Records(th[t].la.rows), th[t].la) # {}

(***************************************************************************)
(* The group tag of a registration                                         *)
(***************************************************************************)
TagChars == {"a", "B", " "}

\* the strings over TagChars of length 1..n
RECURSIVE StringsUpTo(_)
StringsUpTo(n) ==
    IF n = 0 THEN {}
    ELSE LET shorter == StringsUpTo(n - 1)
         IN  {<<c>> : c \in TagChars} \cup shorter
                \cup {Append(s, c) : s \in {x \in shorter : Len(x) = n - 1}, c \in TagChars}

\* the words of a name, joined by single spaces
RECURSIVE JoinWords(_)
JoinWords(s) ==
    LET t == LStrip(s)
    IN  IF t = <<>> THEN <<>>
        ELSE LET n == IF \E i \in 1..Len(t) : t[i] = " "
                      THEN (CHOOSE i \in 1..Len(t) :
                               t[i] = " " /\ \A j \in 1..(i - 1) : t[j] # " ") - 1
                      ELSE Len(t)
                 rest == JoinWords(SubSeq(t, n + 1, Len(t)))
             IN  SubSeq(t, 1, n) \o (IF rest = <<>> THEN <<>> ELSE <<" ">> \o rest)

\* names of one or more words, and roll numbers
TagNames == {s \in StringsUpTo(MaxTagLen) : JoinWords(s) # <<>>}
TagRolls == {<<"1">>, <<"1", "2">>}

TagRegisterRequest(t) ==
    \E name \in TagNames, roll_no \in TagRolls :
        DOMAIN corpus = {} /\ ReqRegister(t, name, roll_no, Img(1))

\* startup, then one registration with a one-face image and its retrain
TagNext ==
    \/ TmStart(1) \/ TmGroup(1) \/ TmCheck(1) \/ TmTrain(1)
    \/ TmWriteModel(1) \/ TmSaveLabels(1)
    \/ LdStart(1)
    \/ RegisterStep(1)
    \/ Respond(1)
    \/ TagRegisterRequest(1)

SpecTag == Init /\ [][TagNext]_vars

LowerCase(s) == [i \in 1..Len(s) |-> ToLower(s[i])]

\* C8: after a registration and its successful retrain, the group written for it
\* is resolved to a registry entry that holds the registered name, its words
\* joined by spaces (compared here without regard to letter case), and the
\* registered roll number.
C8_TagYieldsRegisteredIdentity ==
    \A t \in Threads :
        (th[t].op = "register" /\ th[t].trained = "ok") =>
            LET d == person_dir(th[t].name, th[t].roll_no)
            IN  /\ d \in DOMAIN th[t].resolved
                /\ th[t].resolved[d] \in DOMAIN labels_map
                /\ LowerCase(labels_map[th[t].resolved[d]].name)
                       = LowerCase(JoinWords(th[t].name))
                /\ labels_map[th[t].resolved[d]].roll_no = th[t].roll_no

(***************************************************************************)
(* Scans during a retrain                                                  *)
(***************************************************************************)
OnePerson == (0 :> [name |-> <<"A">>, roll_no |-> <<"1">>])
OnePersonModel == [trained |-> TRUE, labels |-> {0}, reg |-> OnePerson]

\* one person has registered with a one-face image and the retrain succeeded
ConcInit ==
    /\ corpus = (<<"a", "_", "1">> :> {Img(1)})
    /\ labels_map = OnePerson
    /\ next_label_id = 1
    /\ face_recognizer = OnePersonModel
    /\ model_file = <<[ok |-> TRUE, clf |-> OnePersonModel]>>
    /\ labels_file = <<[ok |-> TRUE, map |-> OnePerson]>>
    /\ attendance_logged_today = <<>>
    /\ attendance_log = NoLog
    /\ now = StartTime
    /\ detector_ok = TRUE
    /\ serving = TRUE
    /\ th = [t \in Threads |-> Idle]

\* thread 1 serves /train and /register while thread 2 serves /scan_image
ConcNext ==
    \/ TmStart(1) \/ TmGroup(1) \/ TmCheck(1) \/ TmTrain(1)
    \/ TmWriteModel(1) \/ TmSaveLabels(1)
    \/ RegisterStep(1)
    \/ ReqTrain(1)
    \/ RegisterRequest(1)
    \/ ScanStep(2)
    \/ ScanRequest(2)
    \/ \E t \in Threads : Respond(t)

SpecConc == ConcInit /\ [][ConcNext]_vars

\* C6: the classifier a scan predicts with and the registry it then looks the
\* label up in are those a retrain in progress started from, or a classifier
\* together with the registry it was trained with.
C6_ScanSeesOldOrNewPair ==
    \A t \in Threads :
        (th[t].obs # <<>> /\ th[t].obs.during # {}) =>
            \/ th[t].obs.clf.reg = th[t].obs.map
            \/ \E r \in th[t].obs.during :
                   r.clf = th[t].obs.clf /\ r.map = th[t].obs.map

(***************************************************************************)
(* Concurrent scans                                                        *)
(***************************************************************************)
\* both threads serve /scan_image, within one second of the clock
RaceNext ==
    \/ \E t \in Threads : ScanRequest(t)
    \/ \E t \in Threads : ScDecode(t)
    \/ \E t \in Threads : ScFace(t)
    \/ \E t \in Threads : ScReturn(t)
    \/ \E t \in Threads : LaCheck(t)
    \/ \E t \in Threads : LaExists(t)
    \/ \E t \in Threads : LaHeader(t)
    \/ \E t \in Threads : LaAppend(t)
    \/ \E t \in Threads : Respond(t)

SpecRace == ConcInit /\ [][RaceNext]_vars

\* C14: two records of one identity on one date are more than
\* min_log_interval_seconds apart, whatever the interleaving of the scans.
C14_OneRecordPerInterval ==
    LET recs == Records(attendance_log.rows)
    IN  \A i, j \in 1..Len(recs) :
            (/\ i < j
             /\ recs[i].name = recs[j].name
             /\ recs[i].roll_no = recs[j].roll_no
             /\ recs[i].date = recs[j].date) =>
                RecordTime(recs[j]) - RecordTime(recs[i]) > min_log_interval_seconds

\* the log file, when it exists, begins with the header and holds it once
HeaderPrefixed ==
    attendance_log.exists =>
        /\ attendance_log.rows # <<>>
        /\ attendance_log.rows[1] = HeaderRow
        /\ \A i \in 2..Len(attendance_log.rows) : ~attendance_log.rows[i].header

\* a step keeps every row of the log in its place
KeepsRows ==
    /\ Len(attendance_log'.rows) >= Len(attendance_log.rows)
    /\ SubSeq(attendance_log'.rows, 1, Len(attendance_log.rows)) = attendance_log.rows

\* C15: in every reachable state the log, when it exists, begins with the
\* header row and holds it exactly once, and no step truncates, removes or
\* reorders the rows already in it.
C15_LogAppendOnlyHeaderPrefixed == [](HeaderPrefixed) /\ [][KeepsRows]_vars

(***************************************************************************)
(* Concurrent retrains                                                     *)
(***************************************************************************)
\* a fresh install, serving, into whose corpus the images of two people were put
TwoGroupsInit ==
    /\ corpus = (<<"a", "_", "1">> :> {Img(1)}) @@ (<<"b", "_", "1">> :> {Img(1)})
    /\ labels_map = <<>>
    /\ next_label_id = 0
    /\ face_recognizer = NotTrained
    /\ model_file = <<>>
    /\ labels_file = <<>>
    /\ attendance_logged_today = <<>>
    /\ attendance_log = NoLog
    /\ now = StartTime
    /\ detector_ok = TRUE
    /\ serving = TRUE
    /\ th = [t \in Threads |-> Idle]

\* both threads serve /train
RetrainNext ==
    \/ \E t \in Threads : ReqTrain(t)
    \/ \E t \in Threads : TmStart(t)
    \/ \E t \in Threads : TmGroup(t)
    \/ \E t \in Threads : TmCheck(t)
    \/ \E t \in Threads : TmTrain(t)
    \/ \E t \in Threads : TmWriteModel(t)
    \/ \E t \in Threads : TmSaveLabels(t)
    \/ \E t \in Threads : Respond(t)

SpecRetrain == TwoGroupsInit /\ [][RetrainNext]_vars

\* train_model has returned True on thread t and the response is not yet sent
TrainSucceeded(t) == th[t].pc = "done" /\ th[t].trained = "ok"

\* C18: when two executions of train_model have both returned True, no two
\* groups of different identities were resolved to one label, and the registry
\* holds an entry for the identity of every group they walked.
C18_ConcurrentTrainsKeepLabelsApart ==
    (\A t \in Threads : TrainSucceeded(t)) =>
        /\ \A t, u \in Threads :
               \A d \in DOMAIN th[t].resolved, e \in DOMAIN th[u].resolved :
                   ParseIdentity(d) # ParseIdentity(e) =>
                       th[t].resolved[d] # th[u].resolved[e]
        /\ \A t \in Threads :
               \A d \in DOMAIN th[t].resolved : FoundLabels(ParseIdentity(d)) # {}

=============================================================================
